---------------------------- MODULE Spec2Model ----------------------------
(***************************************************************************)
(* A model of the calculator agent (Calculator_agent.py): the safe         *)
(* expression evaluator, the unit converter, the intent classifier, the    *)
(* handlers and the dispatcher.                                            *)
(*                                                                         *)
(* A text is a sequence of one-character strings.  Numbers are exact       *)
(* rationals <<n, d>> with d > 0 in lowest terms (Python's int and float   *)
(* are not told apart).  An input is a concatenation of at most a bounded  *)
(* number of atoms drawn from a vocabulary; every function of the program  *)
(* works on the characters of the text, as the code does.                  *)
(***************************************************************************)
EXTENDS Integers, Sequences, FiniteSets, TLC

VARIABLES
    text,               \* the input handed to the operation under analysis
    pc,                 \* "call" | "dispatch" | "done"
    intent,             \* agent_process's local `intent` ("none" before it is set)
    handler,            \* agent_process's local `handler` ("none" before it is set)
    outcome,            \* what the operation produced: a returned value or a raised exception
    depth,              \* deepest nesting of _eval frames during the last evaluation
    called,             \* names of the functions invoked by the last evaluation
    cargs,              \* arguments of a direct convert_units call
    first,              \* the first request of a session and its outcome
    ALLOWED_OPERATORS,  \* module-level dict: AST operator class -> operator function
    ALLOWED_NAMES,      \* module-level dict, by its keys: the names callable from an expression
    UNIT_MAP,           \* module-level dict: (from, to) -> conversion
    INTENT_HANDLERS     \* module-level dict: intent -> handler

vars == <<text, pc, intent, handler, outcome, depth, called, cargs, first,
          ALLOWED_OPERATORS, ALLOWED_NAMES, UNIT_MAP, INTENT_HANDLERS>>

tables == <<ALLOWED_OPERATORS, ALLOWED_NAMES, UNIT_MAP, INTENT_HANDLERS>>

(***************************************************************************)
(* Characters and strings.                                                 *)
(***************************************************************************)
DIGITS == <<"0", "1", "2", "3", "4", "5", "6", "7", "8", "9">>

LOWERCASE == <<"a", "b", "c", "d", "e", "f", "g", "h", "i", "j", "k", "l", "m",
               "n", "o", "p", "q", "r", "s", "t", "u", "v", "w", "x", "y", "z">>

UPPERCASE == <<"A", "B", "C", "D", "E", "F", "G", "H", "I", "J", "K", "L", "M",
               "N", "O", "P", "Q", "R", "S", "T", "U", "V", "W", "X", "Y", "Z">>

Range(s) == {s[i] : i \in DOMAIN s}

DigitChars == Range(DIGITS)

AlphaChars == Range(LOWERCASE) \cup Range(UPPERCASE)

UpperChars == Range(UPPERCASE)

SpaceChars == {" ", "\t", "\n", "\r", "\f"}

IsDigit(c) == c \in DigitChars

IsAlpha(c) == c \in AlphaChars

\* \w of the re module
IsWord(c) == IsAlpha(c) \/ IsDigit(c) \/ c = "_"

\* \s of the re module, str.strip() and the tokenizer's blanks
IsSpace(c) == c \in SpaceChars

DigitVal(c) == CHOOSE v \in 0..9 : DIGITS[v + 1] = c

\* str.lower() on one character
LowerChar(c) ==
    IF c \in UpperChars
    THEN LOWERCASE[CHOOSE i \in 1..26 : UPPERCASE[i] = c]
    ELSE c

\* str.lower()
Lower(s) == [i \in DOMAIN s |-> LowerChar(s[i])]

\* the characters of a TLA+ string
Chars(str) == [i \in 1..Len(str) |-> SubSeq(str, i, i)]

\* the TLA+ string of a sequence of characters
RECURSIVE Str(_)
Str(s) == IF s = <<>> THEN "" ELSE Head(s) \o Str(Tail(s))

\* s[i:j] of Python, 1-based and inclusive here; empty when i > j
Slice(s, i, j) == IF i > j THEN <<>> ELSE SubSeq(s, i, j)

\* s.startswith(p) at position i: p occurs in s starting at index i
OccursAt(s, p, i) ==
    /\ i >= 1
    /\ i + Len(p) - 1 <= Len(s)
    /\ \A k \in 1..Len(p) : s[i + k - 1] = p[k]

\* p in s
Contains(s, p) == \E i \in 1..(Len(s) + 1) : OccursAt(s, p, i)

\* s.startswith(p)
StartsWith(s, p) == OccursAt(s, p, 1)

\* str.strip()
Strip(s) ==
    LET keep == {i \in DOMAIN s : ~IsSpace(s[i])}
    IN  IF keep = {} THEN <<>>
        ELSE LET lo == CHOOSE i \in keep : \A j \in keep : i <= j
                 hi == CHOOSE i \in keep : \A j \in keep : j <= i
             IN  SubSeq(s, lo, hi)

\* str.replace(c, by) for a one-character c
RECURSIVE Replace(_, _, _)
Replace(s, c, by) ==
    IF s = <<>> THEN <<>>
    ELSE (IF Head(s) = c THEN by ELSE <<Head(s)>>) \o Replace(Tail(s), c, by)

\* a character class by name
InClass(cls, c) ==
    CASE cls = "digit" -> IsDigit(c)
      [] cls = "alpha" -> IsAlpha(c)
      [] cls = "word" -> IsWord(c)
      [] cls = "space" -> IsSpace(c)

\* the end of the longest run of characters of a class starting at i
\* (i - 1 when s[i] is not of the class)
RunEnd(s, i, cls) ==
    LET ends == {j \in (i - 1)..Len(s) : \A k \in i..j : InClass(cls, s[k])}
    IN  CHOOSE j \in ends : \A k \in ends : k <= j

(***************************************************************************)
(* Numbers: exact rationals.                                               *)
(***************************************************************************)
AbsInt(n) == IF n < 0 THEN -n ELSE n

RECURSIVE GCD(_, _)
GCD(a, b) == IF b = 0 THEN a ELSE GCD(b, a % b)

Rat(n, d) ==
    LET g == GCD(AbsInt(n), AbsInt(d))
        s == IF d < 0 THEN -1 ELSE 1
    IN  <<(s * n) \div g, (s * d) \div g>>

RInt(n) == <<n, 1>>

RAdd(a, b) == Rat(a[1] * b[2] + b[1] * a[2], a[2] * b[2])
RNeg(a) == <<-a[1], a[2]>>
RSub(a, b) == RAdd(a, RNeg(b))
RMul(a, b) == Rat(a[1] * b[1], a[2] * b[2])
RDiv(a, b) == Rat(a[1] * b[2], a[2] * b[1])
RLess(a, b) == a[1] * b[2] < b[1] * a[2]
RIsZero(a) == a[1] = 0
RIsInt(a) == a[2] = 1
RFloor(a) == a[1] \div a[2]
\* Python's %: the result has the sign of the divisor
RMod(a, b) == RSub(a, RMul(b, RInt(RFloor(RDiv(a, b)))))

RECURSIVE RPowNat(_, _)
RPowNat(a, n) == IF n = 0 THEN RInt(1) ELSE RMul(a, RPowNat(a, n - 1))

\* the value of a run of decimal digits
RECURSIVE DecVal(_)
DecVal(ds) ==
    IF ds = <<>> THEN 0
    ELSE 10 * DecVal(SubSeq(ds, 1, Len(ds) - 1)) + DigitVal(ds[Len(ds)])

RECURSIVE Pow10(_)
Pow10(k) == IF k = 0 THEN 1 ELSE 10 * Pow10(k - 1)

(***************************************************************************)
(* ast.parse(expr, mode="eval"): the tokenizer.  A token is a record       *)
(* [k, s, n]: k is NUMBER, NAME, KW, OP, ERROR (a lexical error) or        *)
(* UNMODELLED (a character or keyword outside the modelled grammar).       *)
(***************************************************************************)
KEYWORDS == {"False", "None", "True", "and", "as", "assert", "async", "await",
             "break", "class", "continue", "def", "del", "elif", "else",
             "except", "finally", "for", "from", "global", "if", "import",
             "in", "is", "lambda", "nonlocal", "not", "or", "pass", "raise",
             "return", "try", "while", "with", "yield"}

OPCHARS == {"+", "-", "*", "/", "%", "(", ")", ",", "=", "~"}

OPS3 == {"//=", "**="}

OPS2 == {"//", "**", "==", "+=", "-=", "*=", "/=", "%="}

Tok(k, s, n) == [k |-> k, s |-> s, n |-> n]

\* a number may be followed at once by one of the keywords and, else, for,
\* if, in, is, not, or (the tokenizer's verify_end_of_number); any other
\* identifier character there is a lexical error
KeywordFollows(s, i) ==
    \/ OccursAt(s, <<"a", "n", "d">>, i)
    \/ OccursAt(s, <<"e", "l", "s", "e">>, i)
    \/ OccursAt(s, <<"f", "o", "r">>, i)
    \/ OccursAt(s, <<"i", "f">>, i)
    \/ OccursAt(s, <<"i", "n">>, i)
    \/ OccursAt(s, <<"i", "s">>, i)
    \/ OccursAt(s, <<"n", "o", "t">>, i)
    \/ OccursAt(s, <<"o", "r">>, i)

\* a decimal integer literal ends at j; what follows may make it a literal
\* of another kind (float, imaginary, hexadecimal, octal, binary, grouped
\* digits), which the model leaves out
OtherLiteral(s, i, j) ==
    /\ j < Len(s)
    /\ \/ s[j + 1] = "."
       \/ s[j + 1] \in {"j", "J"}
       \/ /\ s[j + 1] \in {"e", "E"}
          /\ \/ j + 2 <= Len(s) /\ IsDigit(s[j + 2])
             \/ j + 3 <= Len(s) /\ s[j + 2] \in {"+", "-"} /\ IsDigit(s[j + 3])
       \/ s[j + 1] = "_" /\ j + 2 <= Len(s) /\ IsDigit(s[j + 2])
       \/ j = i /\ s[i] = "0" /\ s[j + 1] \in {"x", "X", "b", "B", "o", "O"}

NumberToken(s, i, j) ==
    LET ds == SubSeq(s, i, j)
        leadingZero == Len(ds) > 1 /\ ds[1] = "0" /\ \E k \in DOMAIN ds : ds[k] # "0"
        glued == j < Len(s) /\ (IsAlpha(s[j + 1]) \/ s[j + 1] = "_")
                    /\ ~KeywordFollows(s, j + 1)
    IN  IF OtherLiteral(s, i, j) THEN Tok("UNMODELLED", "", <<0, 1>>)
        ELSE IF leadingZero \/ glued THEN Tok("ERROR", "", <<0, 1>>)
        ELSE Tok("NUMBER", "", <<DecVal(ds), 1>>)

NameToken(s, i, j) ==
    LET w == Str(SubSeq(s, i, j))
    IN  IF w = "is" THEN Tok("KW", w, <<0, 1>>)
        ELSE IF w \in KEYWORDS THEN Tok("UNMODELLED", w, <<0, 1>>)
        ELSE Tok("NAME", w, <<0, 1>>)

OpLen(s, i) ==
    IF i + 2 <= Len(s) /\ Str(SubSeq(s, i, i + 2)) \in OPS3 THEN 3
    ELSE IF i + 1 <= Len(s) /\ Str(SubSeq(s, i, i + 1)) \in OPS2 THEN 2
    ELSE 1

RECURSIVE Tokens(_, _)
Tokens(s, i) ==
    IF i > Len(s) THEN <<>>
    ELSE IF IsSpace(s[i]) THEN Tokens(s, RunEnd(s, i, "space") + 1)
    ELSE IF IsDigit(s[i]) THEN
        LET j == RunEnd(s, i, "digit")
            t == NumberToken(s, i, j)
        IN  IF t.k = "NUMBER" THEN <<t>> \o Tokens(s, j + 1) ELSE <<t>>
    ELSE IF IsAlpha(s[i]) \/ s[i] = "_" THEN
        LET j == RunEnd(s, i, "word")
        IN  <<NameToken(s, i, j)>> \o Tokens(s, j + 1)
    ELSE IF s[i] \in OPCHARS THEN
        LET n == OpLen(s, i)
        IN  <<Tok("OP", Str(SubSeq(s, i, i + n - 1)), <<0, 1>>)>> \o Tokens(s, i + n)
    ELSE <<Tok("UNMODELLED", s[i], <<0, 1>>)>>

(***************************************************************************)
(* ast.parse(expr, mode="eval"): the parser, for the expression grammar    *)
(*   expressions: expression (',' expression)* [',']                       *)
(*   comparison:  sum (('==' | 'is') sum)*                                 *)
(*   sum:         term (('+' | '-') term)*                                 *)
(*   term:        factor (('*' | '/' | '//' | '%') factor)*                *)
(*   factor:      ('+' | '-' | '~') factor | power                         *)
(*   power:       primary ['**' factor]                                    *)
(*   primary:     atom ('(' [arguments] ')')*                              *)
(*   atom:        NUMBER | NAME | '(' [expressions] ')'                    *)
(* A parse is [ok, node, p]: the node and the position after it.           *)
(***************************************************************************)
NoNode == [type |-> "None"]

Parsed(node, p) == [ok |-> TRUE, node |-> node, p |-> p]

Failed == [ok |-> FALSE, node |-> NoNode, p |-> 0]

IsOp(ts, p, o) == p <= Len(ts) /\ ts[p].k = "OP" /\ ts[p].s = o

IsOpIn(ts, p, os) == p <= Len(ts) /\ ts[p].k = "OP" /\ ts[p].s \in os

IsKind(ts, p, k) == p <= Len(ts) /\ ts[p].k = k

StartsExpression(ts, p) ==
    IsKind(ts, p, "NUMBER") \/ IsKind(ts, p, "NAME") \/ IsOpIn(ts, p, {"(", "+", "-", "~"})

Num(n) == [type |-> "Num", n |-> n]

Name(id) == [type |-> "Name", id |-> id]

BinOp(left, op, right) == [type |-> "BinOp", op |-> op, left |-> left, right |-> right]

UnaryOp(op, operand) == [type |-> "UnaryOp", op |-> op, operand |-> operand]

Call(func, args, keywords) ==
    [type |-> "Call", func |-> func, args |-> args, keywords |-> keywords]

Tuple(elts) == [type |-> "Tuple", elts |-> elts]

Compare(left, comparators) ==
    [type |-> "Compare", left |-> left, comparators |-> comparators]

Starred(value) == [type |-> "Starred", value |-> value]

BinOpClass(o) ==
    CASE o = "+" -> "Add" [] o = "-" -> "Sub" [] o = "*" -> "Mult"
      [] o = "/" -> "Div" [] o = "//" -> "FloorDiv" [] o = "%" -> "Mod"
      [] o = "**" -> "Pow"

UnaryOpClass(o) ==
    CASE o = "+" -> "UAdd" [] o = "-" -> "USub" [] o = "~" -> "Invert"

\* what a grammar rule carries while it loops: the node read so far (the left
\* operand, the called function), the elements, arguments or comparators read
\* so far, the keyword arguments, and whether a keyword argument was read
Acc(node, list, keywords, flag) ==
    [node |-> node, list |-> list, keywords |-> keywords, flag |-> flag]

NoAcc == Acc(NoNode, <<>>, <<>>, FALSE)

Left(node) == Acc(node, <<>>, <<>>, FALSE)

\* one operator for all the rules of the grammar: Parse(rule, ts, p, acc)
\* reads `rule` in the tokens ts from position p on
RECURSIVE Parse(_, _, _, _)
Parse(rule, ts, p, acc) ==
    CASE rule = "expressions" ->
            LET e == Parse("comparison", ts, p, NoAcc)
            IN  IF ~e.ok THEN Failed
                ELSE IF IsOp(ts, e.p, ",")
                THEN Parse("expressions_rest", ts, e.p, Acc(NoNode, <<e.node>>, <<>>, FALSE))
                ELSE e
      \* at a comma after the elements read so far
      [] rule = "expressions_rest" ->
            IF ~IsOp(ts, p, ",") THEN Parsed(Tuple(acc.list), p)
            ELSE IF ~StartsExpression(ts, p + 1) THEN Parsed(Tuple(acc.list), p + 1)
            ELSE LET e == Parse("comparison", ts, p + 1, NoAcc)
                 IN  IF ~e.ok THEN Failed
                     ELSE Parse("expressions_rest", ts, e.p,
                                Acc(NoNode, Append(acc.list, e.node), <<>>, FALSE))
      [] rule = "comparison" ->
            LET l == Parse("sum", ts, p, NoAcc)
            IN  IF ~l.ok THEN Failed ELSE Parse("comparison_rest", ts, l.p, Left(l.node))
      [] rule = "comparison_rest" ->
            IF IsOp(ts, p, "==") \/ (IsKind(ts, p, "KW") /\ ts[p].s = "is") THEN
                LET r == Parse("sum", ts, p + 1, NoAcc)
                IN  IF ~r.ok THEN Failed
                    ELSE Parse("comparison_rest", ts, r.p,
                               Acc(acc.node, Append(acc.list, r.node), <<>>, FALSE))
            ELSE IF acc.list = <<>> THEN Parsed(acc.node, p)
            ELSE Parsed(Compare(acc.node, acc.list), p)
      [] rule = "sum" ->
            LET l == Parse("term", ts, p, NoAcc)
            IN  IF ~l.ok THEN Failed ELSE Parse("sum_rest", ts, l.p, Left(l.node))
      [] rule = "sum_rest" ->
            IF IsOpIn(ts, p, {"+", "-"}) THEN
                LET r == Parse("term", ts, p + 1, NoAcc)
                IN  IF ~r.ok THEN Failed
                    ELSE Parse("sum_rest", ts, r.p,
                               Left(BinOp(acc.node, BinOpClass(ts[p].s), r.node)))
            ELSE Parsed(acc.node, p)
      [] rule = "term" ->
            LET l == Parse("factor", ts, p, NoAcc)
            IN  IF ~l.ok THEN Failed ELSE Parse("term_rest", ts, l.p, Left(l.node))
      [] rule = "term_rest" ->
            IF IsOpIn(ts, p, {"*", "/", "//", "%"}) THEN
                LET r == Parse("factor", ts, p + 1, NoAcc)
                IN  IF ~r.ok THEN Failed
                    ELSE Parse("term_rest", ts, r.p,
                               Left(BinOp(acc.node, BinOpClass(ts[p].s), r.node)))
            ELSE Parsed(acc.node, p)
      [] rule = "factor" ->
            IF IsOpIn(ts, p, {"+", "-", "~"}) THEN
                LET r == Parse("factor", ts, p + 1, NoAcc)
                IN  IF ~r.ok THEN Failed
                    ELSE Parsed(UnaryOp(UnaryOpClass(ts[p].s), r.node), r.p)
            ELSE Parse("power", ts, p, NoAcc)
      [] rule = "power" ->
            LET b == Parse("primary", ts, p, NoAcc)
            IN  IF ~b.ok THEN Failed
                ELSE IF IsOp(ts, b.p, "**") THEN
                    LET r == Parse("factor", ts, b.p + 1, NoAcc)
                    IN  IF ~r.ok THEN Failed
                        ELSE Parsed(BinOp(b.node, "Pow", r.node), r.p)
                ELSE b
      [] rule = "primary" ->
            LET a == Parse("atom", ts, p, NoAcc)
            IN  IF ~a.ok THEN Failed ELSE Parse("trailers", ts, a.p, Left(a.node))
      \* the calls of the primary read so far
      [] rule = "trailers" ->
            IF IsOp(ts, p, "(") THEN
                LET c == Parse("arguments", ts, p + 1, NoAcc)
                IN  IF ~c.ok THEN Failed
                    ELSE Parse("trailers", ts, c.p,
                               Left(Call(acc.node, c.node.args, c.node.keywords)))
            ELSE Parsed(acc.node, p)
      [] rule = "atom" ->
            IF IsKind(ts, p, "NUMBER") THEN Parsed(Num(ts[p].n), p + 1)
            ELSE IF IsKind(ts, p, "NAME") THEN Parsed(Name(ts[p].s), p + 1)
            ELSE IF IsOp(ts, p, "(") THEN
                IF IsOp(ts, p + 1, ")") THEN Parsed(Tuple(<<>>), p + 2)
                ELSE LET e == Parse("expressions", ts, p + 1, NoAcc)
                     IN  IF e.ok /\ IsOp(ts, e.p, ")") THEN Parsed(e.node, e.p + 1)
                         ELSE Failed
            ELSE Failed
      \* p is the position of the next argument, or of the closing parenthesis
      [] rule = "arguments" ->
            IF IsOp(ts, p, ")")
            THEN Parsed([args |-> acc.list, keywords |-> acc.keywords], p + 1)
            ELSE IF IsKind(ts, p, "NAME") /\ IsOp(ts, p + 1, "=") THEN
                LET e == Parse("comparison", ts, p + 2, NoAcc)
                IN  IF ~e.ok THEN Failed
                    ELSE Parse("arguments_next", ts, e.p,
                               Acc(NoNode, acc.list, Append(acc.keywords, e.node), TRUE))
            ELSE IF IsOp(ts, p, "**") THEN
                LET e == Parse("comparison", ts, p + 1, NoAcc)
                IN  IF ~e.ok THEN Failed
                    ELSE Parse("arguments_next", ts, e.p,
                               Acc(NoNode, acc.list, Append(acc.keywords, e.node), TRUE))
            ELSE IF IsOp(ts, p, "*") THEN
                LET e == Parse("sum", ts, p + 1, NoAcc)
                IN  IF ~e.ok THEN Failed
                    ELSE Parse("arguments_next", ts, e.p,
                               Acc(NoNode, Append(acc.list, Starred(e.node)),
                                   acc.keywords, acc.flag))
            \* a positional argument after a keyword argument
            ELSE IF acc.flag THEN Failed
            ELSE LET e == Parse("comparison", ts, p, NoAcc)
                 IN  IF ~e.ok THEN Failed
                     ELSE Parse("arguments_next", ts, e.p,
                                Acc(NoNode, Append(acc.list, e.node), acc.keywords, FALSE))
      \* after an argument: a comma or the closing parenthesis
      [] rule = "arguments_next" ->
            IF IsOp(ts, p, ")")
            THEN Parsed([args |-> acc.list, keywords |-> acc.keywords], p + 1)
            ELSE IF IsOp(ts, p, ",") THEN Parse("arguments", ts, p + 1, acc)
            ELSE Failed

\* ast.parse(expr, mode="eval"): [ok, exc, body]
ast_parse(expr) ==
    LET ts == Tokens(expr, 1)
        e == Parse("expressions", ts, 1, NoAcc)
    IN  IF \E i \in DOMAIN ts : ts[i].k = "UNMODELLED"
        THEN [ok |-> FALSE, exc |-> "Unmodelled", body |-> NoNode]
        ELSE IF expr # <<>> /\ expr[1] \in {" ", "\t"}
        THEN [ok |-> FALSE, exc |-> "IndentationError", body |-> NoNode]
        ELSE IF e.ok /\ e.p = Len(ts) + 1
        THEN [ok |-> TRUE, exc |-> "", body |-> e.node]
        ELSE [ok |-> FALSE, exc |-> "SyntaxError", body |-> NoNode]

(***************************************************************************)
(* The whitelists.                                                         *)
(***************************************************************************)
\* ALLOWED_OPERATORS at import: AST operator class -> function of `operator`
InitialOperators ==
    [c \in {"Add", "Sub", "Mult", "Div", "Pow", "Mod", "USub", "UAdd"} |->
        CASE c = "Add" -> "add" [] c = "Sub" -> "sub" [] c = "Mult" -> "mul"
          [] c = "Div" -> "truediv" [] c = "Pow" -> "pow" [] c = "Mod" -> "mod"
          [] c = "USub" -> "neg" [] c = "UAdd" -> "pos"]

\* the public names of the math module (CPython 3.11), which line 27 collects
MathNames ==
    {"acos", "acosh", "asin", "asinh", "atan", "atan2", "atanh", "cbrt", "ceil",
     "comb", "copysign", "cos", "cosh", "degrees", "dist", "e", "erf", "erfc",
     "exp", "exp2", "expm1", "fabs", "factorial", "floor", "fmod", "frexp",
     "fsum", "gamma", "gcd", "hypot", "inf", "isclose", "isfinite", "isinf",
     "isnan", "isqrt", "lcm", "ldexp", "lgamma", "log", "log10", "log1p",
     "log2", "modf", "nan", "nextafter", "perm", "pi", "pow", "prod",
     "radians", "remainder", "sin", "sinh", "sqrt", "tan", "tanh", "tau",
     "trunc", "ulp"}

\* the keys of ALLOWED_NAMES at import
InitialNames == MathNames \cup {"abs", "round", "min", "max"}

\* the names of ALLOWED_NAMES bound to a float, not to a function
MathConstants == {"e", "inf", "nan", "pi", "tau"}

(***************************************************************************)
(* safe_eval._eval.  An evaluation is a record                             *)
(*   [raised, exc, msg, v, depth, called]:                                 *)
(* the value v or the exception raised, the deepest _eval frame entered    *)
(* and the names of the whitelist functions invoked.                       *)
(***************************************************************************)
Value(v, d, c) ==
    [raised |-> FALSE, exc |-> "", msg |-> "", v |-> v, depth |-> d, called |-> c]

Raise(exc, msg, d, c) ==
    [raised |-> TRUE, exc |-> exc, msg |-> msg, v |-> <<0, 1>>, depth |-> d, called |-> c]

Max(a, b) == IF a >= b THEN a ELSE b

\* op.add, op.sub, op.mul, op.truediv, op.pow, op.mod on two numbers
ApplyBinary(fn, a, b, d, c) ==
    CASE fn = "add" -> Value(RAdd(a, b), d, c)
      [] fn = "sub" -> Value(RSub(a, b), d, c)
      [] fn = "mul" -> Value(RMul(a, b), d, c)
      [] fn = "truediv" ->
            IF RIsZero(b) THEN Raise("ZeroDivisionError", "division by zero", d, c)
            ELSE Value(RDiv(a, b), d, c)
      [] fn = "mod" ->
            IF RIsZero(b) THEN Raise("ZeroDivisionError", "modulo by zero", d, c)
            ELSE Value(RMod(a, b), d, c)
      [] fn = "pow" ->
            IF ~RIsInt(b) THEN Raise("Unmodelled", "fractional power", d, c)
            ELSE IF b[1] >= 0 THEN Value(RPowNat(a, b[1]), d, c)
            ELSE IF RIsZero(a)
            THEN Raise("ZeroDivisionError", "0.0 cannot be raised to a negative power", d, c)
            ELSE Value(RPowNat(RDiv(RInt(1), a), -b[1]), d, c)
      [] OTHER -> Raise("Unmodelled", fn, d, c)

\* op.neg, op.pos on a number
ApplyUnary(fn, a, d, c) ==
    CASE fn = "neg" -> Value(RNeg(a), d, c)
      [] fn = "pos" -> Value(a, d, c)
      [] OTHER -> Raise("Unmodelled", fn, d, c)

RAbs(a) == <<AbsInt(a[1]), a[2]>>

RECURSIVE RMaxOf(_)
RMaxOf(vs) ==
    IF Len(vs) = 1 THEN vs[1]
    ELSE LET m == RMaxOf(Tail(vs)) IN IF RLess(vs[1], m) THEN m ELSE vs[1]

RECURSIVE RMinOf(_)
RMinOf(vs) ==
    IF Len(vs) = 1 THEN vs[1]
    ELSE LET m == RMinOf(Tail(vs)) IN IF RLess(m, vs[1]) THEN m ELSE vs[1]

\* ALLOWED_NAMES[func](*args): the call of a whitelisted name on evaluated
\* arguments.  abs, max and min are modelled; a math constant is not
\* callable; the other functions are left out (Unmodelled).
CallAllowed(func, vs, d, c) ==
    LET c2 == c \cup {func}
    IN  CASE func \in MathConstants ->
                Raise("TypeError", "'float' object is not callable", d, c)
          [] func = "abs" ->
                IF Len(vs) = 1 THEN Value(RAbs(vs[1]), d, c2)
                ELSE Raise("TypeError", "abs() takes exactly one argument", d, c2)
          [] func = "max" ->
                IF Len(vs) >= 2 THEN Value(RMaxOf(vs), d, c2)
                ELSE Raise("TypeError", "max: one iterable or two numbers needed", d, c2)
          [] func = "min" ->
                IF Len(vs) >= 2 THEN Value(RMinOf(vs), d, c2)
                ELSE Raise("TypeError", "min: one iterable or two numbers needed", d, c2)
          [] OTHER -> Raise("Unmodelled", func, d, c2)

\* line 52: func in ALLOWED_NAMES
Whitelisted(func, names) == func \in names

RECURSIVE _eval(_, _, _, _, _), EvalArgs(_, _, _, _, _, _, _, _)

\* lines 39-64: node, the depth d of this frame, the functions c invoked so
\* far, and the two whitelists
_eval(node, d, c, operators, names) ==
    IF node.type = "Num" THEN Value(node.n, d, c)
    ELSE IF node.type = "BinOp" THEN
        IF node.op \notin DOMAIN operators THEN Raise("KeyError", node.op, d, c)
        ELSE LET l == _eval(node.left, d + 1, c, operators, names)
             IN  IF l.raised THEN l
                 ELSE LET r == _eval(node.right, d + 1, l.called, operators, names)
                      IN  IF r.raised THEN [r EXCEPT !.depth = Max(l.depth, r.depth)]
                          ELSE ApplyBinary(operators[node.op], l.v, r.v,
                                           Max(l.depth, r.depth), r.called)
    ELSE IF node.type = "UnaryOp" THEN
        IF node.op \notin DOMAIN operators THEN Raise("KeyError", node.op, d, c)
        ELSE LET o == _eval(node.operand, d + 1, c, operators, names)
             IN  IF o.raised THEN o
                 ELSE ApplyUnary(operators[node.op], o.v, o.depth, o.called)
    ELSE IF node.type = "Call" THEN
        IF node.func.type # "Name"
        THEN Raise("AttributeError", "object has no attribute 'id'", d, c)
        ELSE IF Whitelisted(node.func.id, names) THEN
            LET as == EvalArgs(node.args, 1, <<>>, d, d, c, operators, names)
            IN  IF as.raised THEN as.error
                ELSE CallAllowed(node.func.id, as.vs, as.depth, as.called)
        ELSE Raise("ValueError", "Function " \o node.func.id \o " not allowed", d, c)
    ELSE IF node.type = "Expression" THEN _eval(node.body, d + 1, c, operators, names)
    ELSE Raise("TypeError", "Unsupported expression: " \o node.type, d, c)

\* line 54: [_eval(arg) for arg in node.args], left to right, from the frame
\* at depth d; md is the deepest frame entered so far
EvalArgs(args, i, vs, d, md, c, operators, names) ==
    IF i > Len(args)
    THEN [raised |-> FALSE, vs |-> vs, depth |-> md, called |-> c,
          error |-> Value(<<0, 1>>, md, c)]
    ELSE LET a == _eval(args[i], d + 1, c, operators, names)
         IN  IF a.raised
             THEN [raised |-> TRUE, vs |-> vs, depth |-> Max(md, a.depth),
                   called |-> a.called,
                   error |-> [a EXCEPT !.depth = Max(md, a.depth)]]
             ELSE EvalArgs(args, i + 1, Append(vs, a.v), d, Max(md, a.depth),
                           a.called, operators, names)

\* the identifiers in call position in a tree: node.func.id of its ast.Call
\* nodes, those inside the keyword arguments of a call included
RECURSIVE CallNames(_)
CallNames(node) ==
    CASE node.type = "BinOp" -> CallNames(node.left) \cup CallNames(node.right)
      [] node.type = "UnaryOp" -> CallNames(node.operand)
      [] node.type = "Call" ->
            (IF node.func.type = "Name" THEN {node.func.id} ELSE CallNames(node.func))
            \cup UNION {CallNames(node.args[i]) : i \in DOMAIN node.args}
            \cup UNION {CallNames(node.keywords[i]) : i \in DOMAIN node.keywords}
      [] node.type = "Tuple" -> UNION {CallNames(node.elts[i]) : i \in DOMAIN node.elts}
      [] node.type = "Compare" ->
            CallNames(node.left)
            \cup UNION {CallNames(node.comparators[i]) : i \in DOMAIN node.comparators}
      [] node.type = "Starred" -> CallNames(node.value)
      [] OTHER -> {}

\* lines 32-69
safe_eval(expr, operators, names) ==
    LET tree == ast_parse(expr)
    IN  IF ~tree.ok THEN Raise(tree.exc, "", 0, {})
        ELSE _eval(tree.body, 1, {}, operators, names)

(***************************************************************************)
(* Unit conversion.                                                        *)
(* A converted value is [coef, lb]: coef * 0.45359237^lb, kept as a        *)
(* product (the factor has nine digits).                                   *)
(***************************************************************************)
\* UNIT_MAP at import: (from, to) -> the lambda, as what it does to x
InitialUnitMap ==
    [k \in {<<"m", "cm">>, <<"cm", "m">>, <<"kg", "lb">>, <<"lb", "kg">>} |->
        CASE k = <<"m", "cm">> -> [f |-> "mul", by |-> "100"]
          [] k = <<"cm", "m">> -> [f |-> "div", by |-> "100"]
          [] k = <<"kg", "lb">> -> [f |-> "div", by |-> "0.45359237"]
          [] k = <<"lb", "kg">> -> [f |-> "mul", by |-> "0.45359237"]]

\* UNIT_MAP[key](value)
ApplyConverter(lam, x) ==
    CASE lam.f = "mul" /\ lam.by = "100" -> [coef |-> RMul(x, RInt(100)), lb |-> 0]
      [] lam.f = "div" /\ lam.by = "100" -> [coef |-> RDiv(x, RInt(100)), lb |-> 0]
      [] lam.f = "div" /\ lam.by = "0.45359237" -> [coef |-> x, lb |-> -1]
      [] lam.f = "mul" /\ lam.by = "0.45359237" -> [coef |-> x, lb |-> 1]

NoConverter(from_unit, to_unit) ==
    "No converter registered for " \o Str(from_unit) \o " -> " \o Str(to_unit)

\* a converter that looks the units up as they are written and returns the
\* value itself for a unit converted to itself
convert_units_as_written(value, from_unit, to_unit, unit_map) ==
    LET key == <<Str(from_unit), Str(to_unit)>>
    IN  IF key \in DOMAIN unit_map
        THEN [raised |-> FALSE, exc |-> "", msg |-> "",
              v |-> ApplyConverter(unit_map[key], value)]
        ELSE IF from_unit = to_unit
        THEN [raised |-> FALSE, exc |-> "", msg |-> "", v |-> [coef |-> value, lb |-> 0]]
        ELSE [raised |-> TRUE, exc |-> "ValueError",
              msg |-> NoConverter(from_unit, to_unit),
              v |-> [coef |-> <<0, 1>>, lb |-> 0]]

\* lines 86-94: [raised, exc, msg, v]
convert_units(value, from_unit, to_unit, unit_map) ==
    LET key == <<Str(Lower(from_unit)), Str(Lower(to_unit))>>
    IN  IF key \in DOMAIN unit_map
        THEN [raised |-> FALSE, exc |-> "", msg |-> "",
              v |-> ApplyConverter(unit_map[key], value)]
        ELSE [raised |-> TRUE, exc |-> "ValueError",
              msg |-> NoConverter(from_unit, to_unit),
              v |-> [coef |-> <<0, 1>>, lb |-> 0]]

(***************************************************************************)
(* Intent classification.                                                  *)
(***************************************************************************)
\* \b before a pattern that starts with a word character, at index i
BoundaryAt(s, i) == i = 1 \/ ~IsWord(s[i - 1])

\* re.search(r"\b(p1|p2|...)", s)
SearchWords(s, patterns) ==
    \E i \in 1..Len(s) : BoundaryAt(s, i) /\ \E p \in patterns : OccursAt(s, p, i)

ConvertPatterns ==
    {Chars("convert"), Chars("to cm"), Chars("to m"), Chars("to kg"), Chars("to lb")}

StatsPatterns == {Chars("mean"), Chars("median"), Chars("average")}

CsvPatterns == {Chars("csv"), Chars("spreadsheet"), Chars("save")}

CalculateTokens ==
    {Chars("+"), Chars("-"), Chars("*"), Chars("/"), Chars("sqrt"), Chars("^")}

CalculatePrefix == Chars("calculate")

\* the test the classifier makes for a category (lines 106, 109, 112, 115)
MatchesCategory(category, t) ==
    LET text_l == Strip(Lower(t))
    IN  CASE category = "convert" -> SearchWords(text_l, ConvertPatterns)
          [] category = "stats" -> SearchWords(text_l, StatsPatterns)
          [] category = "generate_csv" -> SearchWords(text_l, CsvPatterns)
          [] category = "calculate" ->
                \/ StartsWith(text_l, CalculatePrefix)
                \/ \E tok \in CalculateTokens : Contains(text_l, tok)

\* a classifier that tests calculate before stats and csv
classify_calculate_early(t) ==
    IF MatchesCategory("convert", t) THEN "convert"
    ELSE IF MatchesCategory("calculate", t) THEN "calculate"
    ELSE IF MatchesCategory("stats", t) THEN "stats"
    ELSE IF MatchesCategory("generate_csv", t) THEN "generate_csv"
    ELSE "unknown"

\* lines 101-118
classify_intent(t) ==
    LET text_l == Strip(Lower(t))
    IN  IF SearchWords(text_l, ConvertPatterns) THEN "convert"
        ELSE IF SearchWords(text_l, StatsPatterns) THEN "stats"
        ELSE IF SearchWords(text_l, CsvPatterns) THEN "generate_csv"
        ELSE IF StartsWith(text_l, CalculatePrefix)
                \/ \E tok \in CalculateTokens : Contains(text_l, tok)
        THEN "calculate"
        ELSE "unknown"

(***************************************************************************)
(* Helpers.                                                                *)
(***************************************************************************)
AllIn(s, i, j, cls) == \A k \in i..j : InClass(cls, s[k])

\* the end of the match of -?\d+\.?\d* at index i, or 0 when there is none
NumberEnd(s, i) ==
    LET k == IF s[i] = "-" THEN i + 1 ELSE i
    IN  IF k > Len(s) \/ ~IsDigit(s[k]) THEN 0
        ELSE LET d1 == RunEnd(s, k, "digit")
             IN  IF d1 < Len(s) /\ s[d1 + 1] = "." THEN RunEnd(s, d1 + 2, "digit")
                 ELSE d1

\* re.findall(r"-?\d+\.?\d*", s) from index i on: the matched substrings
RECURSIVE FindNumbers(_, _)
FindNumbers(s, i) ==
    IF i > Len(s) THEN <<>>
    ELSE LET e == NumberEnd(s, i)
         IN  IF e = 0 THEN FindNumbers(s, i + 1)
             ELSE <<SubSeq(s, i, e)>> \o FindNumbers(s, e + 1)

\* float(n) for a match n of -?\d+\.?\d*: [v, neg], the value and the sign bit
Float(n) ==
    LET neg == n[1] = "-"
        body == IF neg THEN Tail(n) ELSE n
        dots == {i \in DOMAIN body : body[i] = "."}
        dot == IF dots = {} THEN Len(body) + 1 ELSE CHOOSE i \in dots : TRUE
        whole == Slice(body, 1, dot - 1)
        frac == Slice(body, dot + 1, Len(body))
        mag == Rat(DecVal(whole \o frac), Pow10(Len(frac)))
    IN  [v |-> IF neg THEN RNeg(mag) ELSE mag, neg |-> neg]

\* lines 125-130
extract_numbers_from_text(t) ==
    LET nums == FindNumbers(t, 1)
    IN  [i \in DOMAIN nums |-> Float(nums[i])]

(***************************************************************************)
(* Handlers.  A handler's result is [raised, exc, msg, ret, depth, called]: *)
(* the record it returns or the exception that leaves it, and what the     *)
(* evaluator did on the way.                                               *)
(***************************************************************************)
\* what a handler that raised has returned: nothing
NoRecord == [status |-> "none"]

Return(ret, d, c) ==
    [raised |-> FALSE, exc |-> "", msg |-> "", ret |-> ret, depth |-> d, called |-> c]

Throw(exc, msg, d, c) ==
    [raised |-> TRUE, exc |-> exc, msg |-> msg, ret |-> NoRecord,
     depth |-> d, called |-> c]

TriggerWords == <<Chars("calculate"), Chars("what is"), Chars("evaluate")>>

\* re.sub(r"^(calculate|what is|evaluate)\s*", "", t)
RemoveTrigger(t) ==
    LET hits == {k \in DOMAIN TriggerWords : StartsWith(t, TriggerWords[k])}
    IN  IF hits = {} THEN t
        ELSE LET k == CHOOSE h \in hits : \A o \in hits : h <= o
                 e == RunEnd(t, Len(TriggerWords[k]) + 1, "space")
             IN  Slice(t, e + 1, Len(t))

\* lines 137-146
handle_calculate(t, operators, names) ==
    LET t1 == Strip(RemoveTrigger(t))
        t2 == Replace(t1, "^", <<"*", "*">>)
        result == safe_eval(t2, operators, names)
    IN  IF result.raised
        THEN Throw(result.exc, result.msg, result.depth, result.called)
        ELSE Return([status |-> "ok", intent |-> "calculate", result |-> result.v],
                    result.depth, result.called)

\* the matches of -?\d+\.?\d* as <<start, end>>, every way the pattern can
\* match (not only the greedy one)
NumberSpans(s) ==
    {p \in (1..Len(s)) \X (1..Len(s)) :
        LET k == IF s[p[1]] = "-" THEN p[1] + 1 ELSE p[1]
        IN  \E d1 \in k..p[2] :
                /\ AllIn(s, k, d1, "digit")
                /\ \/ d1 = p[2]
                   \/ s[d1 + 1] = "." /\ AllIn(s, d1 + 2, p[2], "digit")}

\* <<b, c>>: \s* ends at b and [a-zA-Z]+ ends at c, after index a
SpaceThenWord(s, a) ==
    {q \in (a..Len(s)) \X (a..Len(s)) :
        /\ q[2] > q[1]
        /\ AllIn(s, a + 1, q[1], "space")
        /\ AllIn(s, q[1] + 1, q[2], "alpha")}

\* d: \s* ends at d and (?:to|in) follows, after index c
SpaceThenToOrIn(s, c) ==
    {d \in c..Len(s) :
        /\ AllIn(s, c + 1, d, "space")
        /\ OccursAt(s, Chars("to"), d + 1) \/ OccursAt(s, Chars("in"), d + 1)}

\* every match of (-?\d+\.?\d*)\s*([a-zA-Z]+)\s*(?:to|in)\s*([a-zA-Z]+) in s,
\* as <<i, a, b, c, d, f, g>>: the number is s[i..a], from_unit s[b+1..c],
\* to|in s[d+1..d+2], to_unit s[f+1..g]
ConvertMatches(s) ==
    UNION {UNION {UNION {{<<n[1], n[2], u[1], u[2], d, w[1], w[2]>> :
                            w \in SpaceThenWord(s, d + 2)} :
                         d \in SpaceThenToOrIn(s, u[2])} :
                  u \in SpaceThenWord(s, n[2])} :
           n \in NumberSpans(s)}

\* the order in which the backtracking matcher finds matches: leftmost start,
\* then each greedy quantifier as long as possible, the earlier ones first
Prefers(m, o) ==
    LET x == <<-m[1], m[2], m[3], m[4], m[5], m[6], m[7]>>
        y == <<-o[1], o[2], o[3], o[4], o[5], o[6], o[7]>>
    IN  \/ x = y
        \/ \E k \in 1..7 : x[k] > y[k] /\ \A j \in 1..(k - 1) : x[j] = y[j]

\* lines 149-161
handle_convert(t, unit_map) ==
    LET ms == ConvertMatches(t)
    IN  IF ms = {}
        THEN Return([status |-> "error", intent |-> "convert",
                     error |-> "Invalid conversion format"], 0, {})
        ELSE LET m == CHOOSE x \in ms : \A o \in ms : Prefers(x, o)
                 value == SubSeq(t, m[1], m[2])
                 from_unit == SubSeq(t, m[3] + 1, m[4])
                 to_unit == SubSeq(t, m[6] + 1, m[7])
                 result == convert_units(Float(value).v, from_unit, to_unit, unit_map)
             IN  IF result.raised THEN Throw(result.exc, result.msg, 0, {})
                 ELSE Return([status |-> "ok", intent |-> "convert",
                              result |-> result.v, from |-> Str(from_unit),
                              to |-> Str(to_unit)], 0, {})

RECURSIVE RSum(_)
RSum(vs) == IF vs = <<>> THEN <<0, 1>> ELSE RAdd(vs[1].v, RSum(Tail(vs)))

\* statistics.mean
mean(nums) == RDiv(RSum(nums), RInt(Len(nums)))

RECURSIVE Insert(_, _)
Insert(x, sorted) ==
    IF sorted = <<>> THEN <<x>>
    ELSE IF RLess(sorted[1], x) THEN <<sorted[1]>> \o Insert(x, Tail(sorted))
    ELSE <<x>> \o sorted

RECURSIVE Sorted(_)
Sorted(vs) == IF vs = <<>> THEN <<>> ELSE Insert(vs[1].v, Sorted(Tail(vs)))

\* statistics.median
median(nums) ==
    LET data == Sorted(nums)
        n == Len(data)
    IN  IF n % 2 = 1 THEN data[(n \div 2) + 1]
        ELSE RDiv(RAdd(data[n \div 2], data[(n \div 2) + 1]), RInt(2))

\* lines 164-178
handle_stats(t) ==
    LET nums == extract_numbers_from_text(t)
    IN  IF nums = <<>>
        THEN Return([status |-> "error", intent |-> "stats",
                     error |-> "No numbers found"], 0, {})
        ELSE IF Contains(t, Chars("mean")) \/ Contains(t, Chars("average"))
        THEN Return([status |-> "ok", intent |-> "stats", operation |-> "mean",
                     result |-> mean(nums)], 0, {})
        ELSE IF Contains(t, Chars("median"))
        THEN Return([status |-> "ok", intent |-> "stats", operation |-> "median",
                     result |-> median(nums)], 0, {})
        ELSE Return([status |-> "error", intent |-> "stats",
                     error |-> "No valid operation found"], 0, {})

\* str(i) for i >= 0
RECURSIVE IntStr(_)
IntStr(i) ==
    IF i < 10 THEN DIGITS[i + 1] ELSE IntStr(i \div 10) \o DIGITS[(i % 10) + 1]

\* the decimals of r / d for 0 <= r < d, d a divisor of a power of ten
RECURSIVE Decimals(_, _)
Decimals(r, d) ==
    IF r = 0 THEN "" ELSE DIGITS[((10 * r) \div d) + 1] \o Decimals((10 * r) % d, d)

\* repr of a float x = [v, neg] of fewer than 17 digits, as csv.writer writes it
FloatRepr(x) ==
    LET n == AbsInt(x.v[1])
        d == x.v[2]
    IN  IF n # 0 /\ n * 10000 < d THEN "Unmodelled"
        ELSE (IF x.neg THEN "-" ELSE "") \o IntStr(n \div d) \o "."
                \o (IF n % d = 0 THEN "0" ELSE Decimals(n % d, d))

\* the rows written by lines 195-196, from row i on
RECURSIVE CsvRows(_, _)
CsvRows(nums, i) ==
    IF i > Len(nums) THEN ""
    ELSE IntStr(i) \o "," \o FloatRepr(nums[i]) \o "\r\n" \o CsvRows(nums, i + 1)

\* lines 181-198
handle_generate_csv(t) ==
    LET nums == extract_numbers_from_text(t)
    IN  IF nums = <<>>
        THEN Return([status |-> "error", intent |-> "generate_csv",
                     error |-> "No numbers found"], 0, {})
        ELSE Return([status |-> "ok", intent |-> "generate_csv",
                     csv |-> "index,value\r\n" \o CsvRows(nums, 1)], 0, {})

\* lines 201-204
handle_unknown(t) ==
    Return([status |-> "error", intent |-> "unknown",
            error |-> "Sorry, I couldn't understand your request."], 0, {})

(***************************************************************************)
(* Dispatcher.                                                             *)
(***************************************************************************)
\* INTENT_HANDLERS at import
InitialHandlers ==
    [i \in {"calculate", "convert", "stats", "generate_csv", "unknown"} |->
        CASE i = "calculate" -> "handle_calculate"
          [] i = "convert" -> "handle_convert"
          [] i = "stats" -> "handle_stats"
          [] i = "generate_csv" -> "handle_generate_csv"
          [] i = "unknown" -> "handle_unknown"]

\* a lookup that answers with the fallback whatever the intent
LookupFallback(handlers, i) == "handle_unknown"

\* line 226: INTENT_HANDLERS.get(intent, handle_unknown)
LookupHandler(handlers, i) ==
    IF i \in DOMAIN handlers THEN handlers[i] ELSE "handle_unknown"

(***************************************************************************)
(* Inputs: concatenations of atoms.                                        *)
(***************************************************************************)
RECURSIVE Flatten(_)
Flatten(w) == IF w = <<>> THEN <<>> ELSE Head(w) \o Flatten(Tail(w))

\* the texts made of at most n atoms of the vocabulary V
Texts(V, n) == UNION {{Flatten(w) : w \in [1..k -> V]} : k \in 0..n}

MaxEvalAtoms == 5

EvalVocabulary ==
    {Chars("foo("), Chars("abs("), Chars(")"), Chars("1"), Chars("/"),
     Chars("-"), Chars(",k=foo(1)")}

MaxProcessAtoms == 3

ProcessVocabulary ==
    {Chars("calculate "), Chars("1"), Chars("1/0"), Chars("mean "),
     Chars("MEAN "), Chars("median "), Chars("csv "), Chars("5 kg"),
     Chars(" to lb"), Chars(" to cm")}

MaxClassifyAtoms == 3

ClassifyVocabulary ==
    {Chars("what is "), Chars("calculate "), Chars("Evaluate "), Chars("mean"),
     Chars("to m"), Chars("save"), Chars("+"), Chars("5"), Chars(" "),
     Chars("sqrt")}

MaxSessionAtoms == 1

SessionVocabulary ==
    {Chars("mean 1 2"), Chars("1/0"), Chars("calculate 1+1"), Chars("5 kg to lb"),
     Chars("csv 1"), Chars("hello")}

MaxDepthAtoms == 5

DashRun == 4

DepthVocabulary ==
    {[i \in 1..DashRun |-> "-"], Chars("-"), Chars("1"), Chars("(1)")}

MaxValue == 2

ConvertUnits ==
    {Chars("m"), Chars("cm"), Chars("kg"), Chars("lb"), Chars("KG"), Chars("Cm"),
     Chars("g")}

(***************************************************************************)
(* The state machine.                                                      *)
(***************************************************************************)
NoOutcome == [kind |-> "none", exc |-> "", msg |-> "", value |-> <<0, 1>>]

Returned(v) == [kind |-> "return", exc |-> "", msg |-> "", value |-> v]

Raised(exc, msg) == [kind |-> "raise", exc |-> exc, msg |-> msg, value |-> <<0, 1>>]

NoArgs == [value |-> <<0, 1>>, from_unit |-> <<>>, to_unit |-> <<>>]

NoFirst == [set |-> FALSE, text |-> <<>>, outcome |-> NoOutcome]

\* the module-level dicts after import (lines 15-29, 78-83, 212-218)
InitTables ==
    /\ ALLOWED_OPERATORS = InitialOperators
    /\ ALLOWED_NAMES = InitialNames
    /\ UNIT_MAP = InitialUnitMap
    /\ INTENT_HANDLERS = InitialHandlers

InitCall ==
    /\ pc = "call"
    /\ intent = "none"
    /\ handler = "none"
    /\ outcome = NoOutcome
    /\ depth = 0
    /\ called = {}
    /\ first = NoFirst
    /\ InitTables

InitEval == text \in Texts(EvalVocabulary, MaxEvalAtoms) /\ cargs = NoArgs /\ InitCall

InitDepth == text \in Texts(DepthVocabulary, MaxDepthAtoms) /\ cargs = NoArgs /\ InitCall

InitProcess ==
    text \in Texts(ProcessVocabulary, MaxProcessAtoms) /\ cargs = NoArgs /\ InitCall

InitClassify ==
    text \in Texts(ClassifyVocabulary, MaxClassifyAtoms) /\ cargs = NoArgs /\ InitCall

InitSession ==
    text \in Texts(SessionVocabulary, MaxSessionAtoms) /\ cargs = NoArgs /\ InitCall

InitConvert ==
    /\ text = <<>>
    /\ cargs \in [value : {RInt(v) : v \in (-MaxValue)..MaxValue},
                  from_unit : ConvertUnits, to_unit : ConvertUnits]
    /\ InitCall

\* a call safe_eval(text)
Do_safe_eval ==
    /\ pc = "call"
    /\ LET r == safe_eval(text, ALLOWED_OPERATORS, ALLOWED_NAMES)
       IN  /\ outcome' = IF r.raised THEN Raised(r.exc, r.msg) ELSE Returned(r.v)
           /\ depth' = r.depth
           /\ called' = r.called
    /\ pc' = "done"
    /\ UNCHANGED <<text, intent, handler, cargs, first, tables>>

\* a call classify_intent(text)
Do_classify_intent ==
    /\ pc = "call"
    /\ intent' = classify_intent(text)
    /\ pc' = "done"
    /\ UNCHANGED <<text, handler, outcome, depth, called, cargs, first, tables>>

\* a call convert_units(value, from_unit, to_unit)
Do_convert_units ==
    /\ pc = "call"
    /\ LET r == convert_units(cargs.value, cargs.from_unit, cargs.to_unit, UNIT_MAP)
       IN  outcome' = IF r.raised THEN Raised(r.exc, r.msg) ELSE Returned(r.v)
    /\ pc' = "done"
    /\ UNCHANGED <<text, intent, handler, depth, called, cargs, first, tables>>

\* agent_process, lines 224-226: classify, then look the handler up
agent_process_route ==
    /\ pc = "call"
    /\ intent' = classify_intent(text)
    /\ handler' = LookupHandler(INTENT_HANDLERS, intent')
    /\ pc' = "dispatch"
    /\ UNCHANGED <<text, outcome, depth, called, cargs, first, tables>>

\* a return that also takes the handler that ran out of the dispatcher's
\* table
FinishUnregistering(r) ==
    /\ outcome' = [kind |-> IF r.raised THEN "raise" ELSE "return",
                   exc |-> r.exc, msg |-> r.msg, value |-> r.ret]
    /\ depth' = r.depth
    /\ called' = r.called
    /\ pc' = "done"
    /\ INTENT_HANDLERS' = [INTENT_HANDLERS EXCEPT ![intent] = "handle_unknown"]
    /\ UNCHANGED <<text, intent, handler, cargs, first, ALLOWED_OPERATORS,
                   ALLOWED_NAMES, UNIT_MAP>>

\* agent_process, line 228: what handler(text) did is what agent_process does
Finish(r) ==
    /\ outcome' = [kind |-> IF r.raised THEN "raise" ELSE "return",
                   exc |-> r.exc, msg |-> r.msg, value |-> r.ret]
    /\ depth' = r.depth
    /\ called' = r.called
    /\ pc' = "done"
    /\ UNCHANGED <<text, intent, handler, cargs, first, tables>>

run_handle_calculate ==
    /\ pc = "dispatch" /\ handler = "handle_calculate"
    /\ Finish(handle_calculate(text, ALLOWED_OPERATORS, ALLOWED_NAMES))

run_handle_convert ==
    /\ pc = "dispatch" /\ handler = "handle_convert"
    /\ Finish(handle_convert(text, UNIT_MAP))

run_handle_stats ==
    /\ pc = "dispatch" /\ handler = "handle_stats"
    /\ Finish(handle_stats(text))

run_handle_generate_csv ==
    /\ pc = "dispatch" /\ handler = "handle_generate_csv"
    /\ Finish(handle_generate_csv(text))

run_handle_unknown ==
    /\ pc = "dispatch" /\ handler = "handle_unknown"
    /\ Finish(handle_unknown(text))

agent_process ==
    \/ agent_process_route
    \/ run_handle_calculate
    \/ run_handle_convert
    \/ run_handle_stats
    \/ run_handle_generate_csv
    \/ run_handle_unknown

\* the caller's next request, after the previous one has been answered
NextRequest ==
    /\ pc = "done"
    /\ text' \in Texts(SessionVocabulary, MaxSessionAtoms)
    /\ first' = IF first.set THEN first
                ELSE [set |-> TRUE, text |-> text, outcome |-> outcome]
    /\ pc' = "call"
    /\ intent' = "none"
    /\ handler' = "none"
    /\ outcome' = NoOutcome
    /\ depth' = 0
    /\ called' = {}
    /\ UNCHANGED <<cargs, tables>>

NextEval == Do_safe_eval

NextClassify == Do_classify_intent

NextConvert == Do_convert_units

NextSession == agent_process \/ NextRequest

SpecEval == InitEval /\ [][NextEval]_vars

SpecDepth == InitDepth /\ [][NextEval]_vars

SpecClassify == InitClassify /\ [][NextClassify]_vars

SpecConvert == InitConvert /\ [][NextConvert]_vars

SpecProcess == InitProcess /\ [][agent_process]_vars

SpecSession == InitSession /\ [][NextSession]_vars

Spec == SpecProcess

(***************************************************************************)
(* The classifier (SpecClassify).                                          *)
(***************************************************************************)
\* the categories in the order of the tests of lines 106-115
Priority == <<"convert", "stats", "generate_csv", "calculate">>

\* C3: the intent is the earliest category, in the order convert, stats, csv,
\* calculate, whose test the text passes, and unknown when it passes none
C3_FirstMatchWins ==
    pc = "done" =>
        LET hits == {k \in DOMAIN Priority : MatchesCategory(Priority[k], text)}
        IN  IF hits = {} THEN intent = "unknown"
            ELSE intent = Priority[CHOOSE k \in hits : \A h \in hits : k <= h]

\* a text with a stats keyword and an arithmetic symbol has been classified
\* as stats
C3_Witness ==
    /\ pc = "done"
    /\ MatchesCategory("stats", text)
    /\ MatchesCategory("calculate", text)
    /\ ~MatchesCategory("convert", text)
    /\ intent = "stats"

\* C4: a text with no convert, stats or csv keyword is classified calculate
\* exactly when, lowercased, it starts with "calculate", "what is" or
\* "evaluate" or contains an arithmetic symbol or function token, and unknown
\* otherwise
C4_TriggerPhrasesCalculate ==
    pc = "done" /\ (\A k \in 1..3 : ~MatchesCategory(Priority[k], text)) =>
        LET text_l == Strip(Lower(text))
            wanted == \/ \E k \in DOMAIN TriggerWords : StartsWith(text_l, TriggerWords[k])
                      \/ \E tok \in CalculateTokens : Contains(text_l, tok)
        IN  intent = IF wanted THEN "calculate" ELSE "unknown"

(***************************************************************************)
(* agent_process (SpecProcess, SpecSession).                               *)
(***************************************************************************)
\* C1: agent_process always returns a record whose status is ok or error; no
\* exception leaves it
C1_NoExceptionEscapes ==
    pc = "done" => outcome.kind = "return" /\ outcome.value.status \in {"ok", "error"}

\* C9: the stats handler answers the no-numbers error for a text without a
\* number, and otherwise ok with the operation mean when the text has the
\* keyword mean or average, and ok with the operation median when it has
\* only the keyword median; so every text classified as stats that has a
\* number gets an ok record
C9_StatsWithNumberIsOk ==
    pc = "done" /\ intent = "stats" =>
        LET nums == extract_numbers_from_text(text)
            text_l == Lower(text)
            wantsMean == Contains(text_l, Chars("mean")) \/ Contains(text_l, Chars("average"))
        IN  /\ outcome.kind = "return"
            /\ IF nums = <<>>
               THEN outcome.value.status = "error"
                    /\ outcome.value.error = "No numbers found"
               ELSE outcome.value.status = "ok"
                    /\ outcome.value.operation = IF wantsMean THEN "mean" ELSE "median"

Intents == {"calculate", "convert", "stats", "generate_csv", "unknown"}

\* C10: the intent is one of the five intents and is what classify_intent
\* gives for the text; the handler that runs is the one registered for it,
\* the fallback for an intent that is not registered; and a returned record
\* carries that intent
C10_RoutingFollowsIntent ==
    /\ pc \in {"dispatch", "done"} =>
            /\ intent \in Intents
            /\ intent = classify_intent(text)
            /\ handler = IF intent \in DOMAIN INTENT_HANDLERS
                         THEN INTENT_HANDLERS[intent] ELSE "handle_unknown"
    /\ pc = "done" /\ outcome.kind = "return" =>
            outcome.value.intent = classify_intent(text)

\* a csv request has been routed to its handler and answered
C10_Witness ==
    /\ pc = "done"
    /\ intent = "generate_csv"
    /\ handler = "handle_generate_csv"
    /\ outcome.kind = "return"
    /\ outcome.value.status = "ok"
    /\ outcome.value.intent = "generate_csv"

\* C7: the four tables keep their contents at import, and a text gets the
\* outcome it got when it was the first request of the session
C7_TablesNeverChange ==
    /\ ALLOWED_OPERATORS = InitialOperators
    /\ ALLOWED_NAMES = InitialNames
    /\ UNIT_MAP = InitialUnitMap
    /\ INTENT_HANDLERS = InitialHandlers
    /\ pc = "done" /\ first.set /\ text = first.text => outcome = first.outcome

\* the first request of the session has been made again after other
\* requests, and answered
C7_Witness ==
    /\ pc = "done"
    /\ first.set
    /\ text = first.text
    /\ outcome.kind = "return"
    /\ outcome = first.outcome

(***************************************************************************)
(* Unit conversion (SpecConvert).                                          *)
(***************************************************************************)
\* the pairs registered in UNIT_MAP (lines 79-82)
DirectPairs == {<<"m", "cm">>, <<"cm", "m">>, <<"kg", "lb">>, <<"lb", "kg">>}

\* C6: convert_units returns a value exactly when the lowercased pair of
\* units is a registered pair, and the value is the one of that pair's
\* converter; for every other pair, a unit converted to itself and a pair
\* joined only through a third unit included, it fails with the error that
\* names the pair as written
C6_OnlyDirectPairs ==
    pc = "done" =>
        LET key == <<Str(Lower(cargs.from_unit)), Str(Lower(cargs.to_unit))>>
        IN  IF key \in DirectPairs
            THEN /\ outcome.kind = "return"
                 /\ outcome.value = ApplyConverter(InitialUnitMap[key], cargs.value)
            ELSE /\ outcome.kind = "raise"
                 /\ outcome.exc = "ValueError"
                 /\ outcome.msg = NoConverter(cargs.from_unit, cargs.to_unit)

\* a pair joined only through a third unit (cm -> m -> ... lb) has been
\* refused
C6_Witness ==
    /\ pc = "done"
    /\ cargs.from_unit = Chars("cm")
    /\ cargs.to_unit = Chars("lb")
    /\ outcome.kind = "raise"

(***************************************************************************)
(* The disallowed-function error (SpecEval).                               *)
(***************************************************************************)
\* the identifiers outside the whitelist in call position in the text, when
\* the text parses
DisallowedCalls ==
    LET tree == ast_parse(text)
    IN  IF tree.ok THEN CallNames(tree.body) \ ALLOWED_NAMES ELSE {}

DisallowedError(id) == Raised("ValueError", "Function " \o id \o " not allowed")

\* C2: every text with an identifier outside the whitelist in call position
\* ends in the disallowed-function error naming such an identifier, and no
\* function outside the whitelist is invoked
C2_DisallowedAlwaysReported ==
    pc = "done" /\ DisallowedCalls # {} =>
        /\ \E id \in DisallowedCalls : outcome = DisallowedError(id)
        /\ called \subseteq ALLOWED_NAMES

(***************************************************************************)
(* The operator lookup (SpecEval).                                         *)
(***************************************************************************)
\* the errors the evaluator raises itself (lines 58 and 64)
ControlledErrors == {"ValueError", "TypeError"}

\* C8: an evaluation whose outermost node is an operation with an operator
\* absent from the operator whitelist fails with an error the evaluator
\* raises itself, not with the fault of the lookup
C8_AbsentOperatorControlled ==
    LET tree == ast_parse(text)
    IN  pc = "done" /\ tree.ok /\ tree.body.type \in {"BinOp", "UnaryOp"}
            /\ tree.body.op \notin DOMAIN ALLOWED_OPERATORS
        => outcome.kind = "raise" /\ outcome.exc \in ControlledErrors

(***************************************************************************)
(* The depth of the evaluation (SpecDepth).                                *)
(***************************************************************************)
\* the configured limit on the depth of _eval.  The evaluator has no such
\* setting; the limit stands for whatever value is configured.
DepthLimit == 16

\* C5: no evaluation enters an _eval frame deeper than the limit, and an
\* expression nested deeper than the limit ends in a depth-exceeded error
C5_DepthNeverExceedsLimit ==
    pc = "done" =>
        /\ depth <= DepthLimit
        /\ Len(text) > DepthLimit /\ (\A i \in 1..DepthLimit : text[i] = "-")
              /\ ast_parse(text).ok
           => outcome.kind = "raise" /\ outcome.exc = "DepthExceeded"

\* every input of the specifications stays inside the modelled grammar,
\* functions and number formats
ModelCoversInput ==
    /\ ~(outcome.kind = "raise" /\ outcome.exc = "Unmodelled")

=============================================================================
